---- MODULE Spec2Model ----
(***************************************************************************)
(* Model of docs/tools/document_functions.py: the header parser            *)
(* (FunctionFile), its feedback channel and the crawl loop (crawl_dir).    *)
(*                                                                         *)
(* Text is a sequence of tokens.  The characters the parser looks at       *)
(* (newline, space, the comment decoration, ':', ',', '<', '>', '(', ')',  *)
(* digits, the plural 's') are one token each; a run of other characters   *)
(* that the parser never looks into (a word such as "bux578") is one       *)
(* token.  The string "Yes\n" is <<"Yes", NL>>.                            *)
(***************************************************************************)
EXTENDS Integers, Sequences, FiniteSets, TLC

VARIABLES
    files,      \* number of eligible files os.walk will yield
    idx,        \* number of files the crawl has constructed a FunctionFile for
    debugArg,   \* the debug argument of crawl_dir
    pc,         \* position in crawl_dir (or in the driver of a unit specification)
    src,        \* the current input as authored (file structure / raw text)
    function,   \* the fields of the current FunctionFile object
    out,        \* lines printed since the current FunctionFile was constructed
    wiki,       \* fragments appended to the output file by document_function
    raised,     \* the exception that propagated out of the crawl, "" if none
    ret         \* value returned by the last call of a unit specification

vars == <<files, idx, debugArg, pc, src, function, out, wiki, raised, ret>>

----------------------------------------------------------------------------
(* Bounds *)

MaxFiles == 2       \* files in one crawl
MaxArgLines == 3    \* lines of an Arguments body given to process_arguments
MaxSections == 3    \* section blocks in a header given to the splitter
MaxCalls == 4       \* feedback calls on one file

----------------------------------------------------------------------------
(* Characters and strings *)

NL == "\n"
SP == " "

Digits == {"0", "1", "2", "3", "4", "5", "6", "7", "8", "9"}

\* tokens with a character outside [A-Za-z0-9_] and outside whitespace
NonWord == {":", ",", "<", ">", "(", ")", "*", "/", ".", "[player]",
            "ace_test_fnc_thing;", "thing."}

IsSpace(c) == c \in {SP, NL}

\* the character class [\s\w]
IsSpaceOrWord(c) == c \notin NonWord

\* str.lower() of one token (only the tokens whose case the parser tests differ)
Lower(c) ==
    CASE c \in {"Yes", "YES", "yes"} -> "yes"
      [] c \in {"No", "NO", "no"} -> "no"
      [] c \in {"None", "NONE", "none"} -> "none"
      [] OTHER -> c

\* first character upper-cased, the rest lower-cased
UpperFirst(c) ==
    CASE Lower(c) = "yes" -> "Yes"
      [] Lower(c) = "no" -> "No"
      [] Lower(c) = "none" -> "None"
      [] OTHER -> c

\* str.capitalize(): first character upper, all others lower
capitalize(t) ==
    [i \in 1..Len(t) |-> IF i = 1 THEN UpperFirst(t[i]) ELSE Lower(t[i])]

\* str.title(): every word gets its first character upper, the rest lower
title(t) == [i \in 1..Len(t) |-> UpperFirst(t[i])]

RECURSIVE lstrip(_)
lstrip(t) ==
    IF t # <<>> /\ IsSpace(Head(t)) THEN lstrip(Tail(t)) ELSE t

RECURSIVE rstrip(_)
rstrip(t) ==
    IF t # <<>> /\ IsSpace(t[Len(t)]) THEN rstrip(SubSeq(t, 1, Len(t) - 1)) ELSE t

\* str.strip()
strip(t) == lstrip(rstrip(t))

\* position of the first c in t at or after i, 0 if there is none
RECURSIVE find(_, _, _)
find(t, c, i) ==
    IF i > Len(t) THEN 0 ELSE IF t[i] = c THEN i ELSE find(t, c, i + 1)

\* str.splitlines(keepends)
RECURSIVE splitlines_k(_, _)
splitlines_k(t, keepends) ==
    IF t = <<>> THEN <<>>
    ELSE LET n == find(t, NL, 1) IN
         IF n = 0 THEN <<t>>
         ELSE <<SubSeq(t, 1, IF keepends THEN n ELSE n - 1)>>
              \o splitlines_k(SubSeq(t, n + 1, Len(t)), keepends)

splitlines(t) == splitlines_k(t, FALSE)

\* sep.join(parts)
RECURSIVE join(_, _)
join(parts, sep) ==
    IF parts = <<>> THEN <<>>
    ELSE IF Len(parts) = 1 THEN parts[1]
    ELSE parts[1] \o sep \o join(Tail(parts), sep)

\* str.split(", ")
RECURSIVE split_comma(_, _, _)
split_comma(t, i, start) ==
    IF i > Len(t) THEN <<SubSeq(t, start, Len(t))>>
    ELSE IF t[i] = "," /\ i < Len(t) /\ t[i + 1] = SP
         THEN <<SubSeq(t, start, i - 1)>> \o split_comma(t, i + 2, i + 2)
         ELSE split_comma(t, i + 1, start)

\* str(n) for a list length
str(n) == IF n < 10 THEN <<ToString(n)>>
          ELSE <<ToString(n \div 10), ToString(n % 10)>>

----------------------------------------------------------------------------
(* Feedback *)

Info == 0
Warning == 1
Error == 2
Aborted == 3

priority_str == <<"Info", "Warning", "Error", "Aborted">>

\* one feedback call: message template, its format argument, its level
Msg(message, arg, level) == [message |-> message, arg |-> arg, level |-> level]

ProcessingLine == [kind |-> "Processing", message |-> "", arg |-> <<>>]

\* log_file that forgets to set self.logged
log_file_forgets(lg, debug, error) ==
    IF (~debug \/ error) /\ ~lg.logged
    THEN [logged |-> FALSE, out |-> Append(lg.out, ProcessingLine)]
    ELSE lg

\* FunctionFile.log_file on the pair (logged, out)
log_file(lg, debug, error) ==
    IF (~debug \/ error) /\ ~lg.logged
    THEN [logged |-> TRUE, out |-> Append(lg.out, ProcessingLine)]
    ELSE lg

\* FunctionFile.feedback (with FunctionFile.write) on the pair (logged, out)
feedback(lg, debug, m) ==
    LET lg1 == log_file(lg, debug, m.level > 0) IN
    [lg1 EXCEPT !.out = Append(@, [kind |-> priority_str[m.level + 1],
                                   message |-> m.message, arg |-> m.arg])]

\* the feedback calls of one handler, in call order
RECURSIVE feedback_all(_, _, _)
feedback_all(lg, debug, ms) ==
    IF ms = <<>> THEN lg
    ELSE feedback_all(feedback(lg, debug, Head(ms)), debug, Tail(ms))

----------------------------------------------------------------------------
(* FunctionFile: header extraction and section splitting *)

SectionNames == {"Author", "Argument", "Return Value", "Example", "Public"}

\* first j >= i with t[j..j+1] = "*/", 0 if there is none
RECURSIVE find_close(_, _)
find_close(t, i) ==
    IF i + 1 > Len(t) THEN 0
    ELSE IF t[i] = "*" /\ t[i + 1] = "/" THEN i ELSE find_close(t, i + 1)

\* re.match(r"\s*/\*.+?\*/", code, re.S): group(0), or <<>> when there is no match
header_match(code) ==
    LET s == Len(code) - Len(lstrip(code)) + 1 IN
    IF s + 1 <= Len(code) /\ code[s] = "/" /\ code[s + 1] = "*"
    THEN LET e == find_close(code, s + 3) IN
         IF e = 0 THEN <<>> ELSE SubSeq(code, 1, e + 1)
    ELSE <<>>

\* "\n".join([x[3:].strip() for x in self.header.splitlines()])
header_text_of(header) ==
    LET lines == splitlines(header) IN
    join([i \in 1..Len(lines) |-> strip(SubSeq(lines[i], 4, Len(lines[i])))], <<NL>>)

\* length of a match of (Author|...)s?:\s? at position i of t, 0 if none
marker_len(t, i) ==
    IF (i = 1 \/ t[i - 1] = NL) /\ t[i] \in SectionNames
    THEN LET j == IF i + 1 <= Len(t) /\ t[i + 1] = "s" THEN i + 2 ELSE i + 1 IN
         IF j <= Len(t) /\ t[j] = ":"
         THEN IF j + 1 <= Len(t) /\ IsSpace(t[j + 1]) THEN j + 2 - i ELSE j + 1 - i
         ELSE 0
    ELSE 0

\* re.split(r"^(Author|...)s?:\s?", t, 0, re.M): the text before the first
\* marker, then for every marker its captured name and the text after it
RECURSIVE re_split(_, _, _)
re_split(t, i, start) ==
    IF i > Len(t) THEN <<SubSeq(t, start, Len(t))>>
    ELSE LET m == marker_len(t, i) IN
         IF m > 0
         THEN <<SubSeq(t, start, i - 1), <<t[i]>>>> \o re_split(t, i + m, i + m)
         ELSE re_split(t, i + 1, start)

sections_of(header_text) == re_split(header_text, 1, 1)

Min(S) == CHOOSE x \in S : \A y \in S : x <= y

\* a lookup that finds the last occurrence of the name
last_index(sections, section_name) ==
    CHOOSE i \in 1..Len(sections) :
        /\ sections[i] = <<section_name>>
        /\ \A j \in 1..Len(sections) : sections[j] = <<section_name>> => j <= i

\* list.index(x) + 1, given that x occurs
first_index(sections, section_name) ==
    Min({i \in 1..Len(sections) : sections[i] = <<section_name>>})

\* FunctionFile.get_section: the returned text, the feedback, the exception
get_section(sections, section_name) ==
    IF \A i \in 1..Len(sections) : sections[i] # <<section_name>>
    THEN [text |-> <<>>,
          fb |-> <<Msg("Missing \"{}\" header section", <<section_name>>, Error)>>,
          raised |-> ""]
    ELSE LET i == first_index(sections, section_name) IN
         IF i + 1 > Len(sections)
         THEN [text |-> <<>>, fb |-> <<>>, raised |-> "IndexError"]
         ELSE [text |-> sections[i + 1], fb |-> <<>>, raised |-> ""]

----------------------------------------------------------------------------
(* FunctionFile: field parsers *)

\* tokens that re.match(r"(Yes|No)", ..., re.I) accepts as the start of the text
YesNoPrefixed == {"Yes", "YES", "yes", "No", "NO", "no", "None", "NONE", "none",
                  "Nothing"}

\* FunctionFile.process_public
process_public(raw) ==
    LET public_text == SubSeq(raw, 1, Len(raw) - 1) IN
    [value |-> capitalize(public_text) = <<"Yes">>,
     fb |-> IF public_text # <<>> /\ public_text[1] \in YesNoPrefixed
            THEN <<>>
            ELSE <<Msg("Invalid public value \"{}\"", public_text, Error)>>]

\* FunctionFile.process_author
process_author(raw) == split_comma(splitlines(raw)[1], 1, 1)

\* process_description that forgets to drop the authors line
process_description_keeps_authors(raw) == join(splitlines_k(raw, TRUE), <<>>)

\* FunctionFile.process_description
process_description(raw) == join(Tail(splitlines_k(raw, TRUE)), <<>>)

\* number of leading digits of t from position i on
RECURSIVE digits_len(_, _)
digits_len(t, i) ==
    IF i <= Len(t) /\ t[i] \in Digits THEN 1 + digits_len(t, i + 1) ELSE 0

\* first position >= i of t that is not in [\s\w], Len(t) + 1 if there is none
RECURSIVE types_end(_, _)
types_end(t, i) ==
    IF i > Len(t) THEN i
    ELSE IF IsSpaceOrWord(t[i]) THEN types_end(t, i + 1) ELSE i

\* \<([\s\w]+?)\> matches at position lt of t; the position of its ">" , else 0
types_match(t, lt) ==
    IF lt <= Len(t) /\ t[lt] = "<"
    THEN LET r == types_end(t, lt + 1) IN
         IF r > lt + 1 /\ r <= Len(t) /\ t[r] = ">" THEN r ELSE 0
    ELSE 0

\* (\s\(default: (.+)\))?$ after position r of the line
has_default(line, r) ==
    /\ Len(line) >= r + 7
    /\ IsSpace(line[r + 1])
    /\ line[r + 2] = "("
    /\ line[r + 3] = "default"
    /\ line[r + 4] = ":"
    /\ line[r + 5] = SP
    /\ line[Len(line)] = ")"

\* the rest of the pattern matches after the ">" at position r (0: no types)
arg_tail_ok(line, r) == r > 0 /\ (r = Len(line) \/ has_default(line, r))

\* the positions where the argument's name may end (the "<" follows), for a
\* line with d leading digits
arg_name_ends_after(line, d) ==
    IF d >= 1 /\ Len(line) >= d + 2 /\ line[d + 1] = ":" /\ IsSpace(line[d + 2])
    THEN {q \in (d + 3)..Len(line) : arg_tail_ok(line, types_match(line, q + 1))}
    ELSE {}

arg_name_ends(line) == arg_name_ends_after(line, digits_len(line, 1))

\* the groups of the match whose name ends at q and whose ">" is at r
arg_groups(line, d, q, r) ==
    [valid |-> TRUE,
     index |-> SubSeq(line, 1, d),
     name |-> SubSeq(line, d + 3, q),
     types |-> SubSeq(line, q + 2, r - 1),
     has_default |-> r < Len(line),
     default |-> SubSeq(line, r + 6, Len(line) - 1)]

\* the match with the shortest name among the possible name ends
arg_shortest(line, ends) ==
    IF ends = {} THEN [valid |-> FALSE]
    ELSE arg_groups(line, digits_len(line, 1), Min(ends),
                    types_match(line, Min(ends) + 1))

\* re.match(r"^(\d+):\s(.+?)\<([\s\w]+?)\>(\s\(default: (.+)\))?$", argument)
arg_match(line) == arg_shortest(line, arg_name_ends(line))

\* re.match(r"^(\d+):", argument)
starts_indexed(line) ==
    LET d == digits_len(line, 1) IN d >= 1 /\ Len(line) >= d + 1 /\ line[d + 1] = ":"

\* an index check that counts positions from one
index_mismatch_one_based(arg_index, arguments) ==
    arg_index # str(Len(arguments) + 1)

\* arg_index != str(len(arguments))
index_mismatch(arg_index, arguments) == arg_index # str(Len(arguments))

\* the body of the for loop of process_arguments: the list and the feedback
\* after one line, given the match object
arguments_step(arguments, fb, argument, valid) ==
    IF valid.valid
    THEN [value |-> Append(arguments,
                           <<valid.index, valid.name, valid.types,
                             IF valid.has_default THEN valid.default ELSE <<>>,
                             <<>>>>),
          fb |-> IF index_mismatch(valid.index, arguments)
                 THEN Append(fb, Msg("Argument index {} does not match listed order",
                                     valid.index, Warning))
                 ELSE fb]
    ELSE IF starts_indexed(argument) \/ arguments = <<>>
    THEN [value |-> arguments,
          fb |-> Append(fb, Msg("Malformed argument \"{}\"", argument, Error))]
    ELSE [value |-> [arguments EXCEPT ![Len(arguments)][5] = Append(@, argument)],
          fb |-> fb]

\* the for loop of FunctionFile.process_arguments, from line i on; acc is the
\* list and the feedback so far
RECURSIVE arguments_loop(_, _, _)
arguments_loop(lines, i, acc) ==
    IF i > Len(lines) THEN acc
    ELSE arguments_loop(lines, i + 1,
             arguments_step(acc.value, acc.fb, lines[i], arg_match(lines[i])))

\* FunctionFile.process_arguments after raw.splitlines()
process_argument_lines(lines) ==
    IF lines[1] = <<"None">> THEN [value |-> <<>>, fb |-> <<>>]
    ELSE IF \A i \in 1..Len(lines) : lines[i] = <<>>
    THEN [value |-> <<>>,
          fb |-> <<Msg("No arguments provided (use \"None\" where appropriate)",
                       <<>>, Error)>>]
    ELSE IF lines[Len(lines)] = <<>>
    THEN arguments_loop(SubSeq(lines, 1, Len(lines) - 1), 1,
                        [value |-> <<>>, fb |-> <<>>])
    ELSE arguments_loop(lines, 1,
             [value |-> <<>>,
              fb |-> <<Msg("No blank line after arguments list", <<>>, Warning)>>])

\* FunctionFile.process_arguments (raw is not empty)
process_arguments(raw) == process_argument_lines(splitlines(raw))

\* the positions where the return value's name may end
return_name_ends(t) ==
    {q \in 1..Len(t) : find(SubSeq(t, 1, q), NL, 1) = 0 /\ types_match(t, q + 1) > 0}

\* FunctionFile.process_return_value after raw.strip(), given the possible
\* name ends
return_value_match(return_value, ends) ==
    IF title(return_value) = <<"None">>
    THEN [value |-> <<<<"None">>, <<"N/A">>>>, fb |-> <<>>, raised |-> ""]
    ELSE IF ends # {}
    THEN [value |-> <<SubSeq(return_value, 1, Min(ends)),
                      SubSeq(return_value, Min(ends) + 2,
                             types_match(return_value, Min(ends) + 1) - 1)>>,
          fb |-> <<>>, raised |-> ""]
    ELSE \* return_name is unbound at the return statement
         [value |-> <<>>,
          fb |-> <<Msg("Malformed return value \"{}\"", return_value, Error)>>,
          raised |-> "UnboundLocalError"]

process_return_stripped(return_value) ==
    return_value_match(return_value, return_name_ends(return_value))

\* FunctionFile.process_return_value: value, feedback, exception
process_return_value(raw) == process_return_stripped(strip(raw))

----------------------------------------------------------------------------
(* FunctionFile: construction, process_header, document_function *)

\* FunctionFile.__init__ (path is the number of the file in the walk)
NewFunction ==
    [debug |-> FALSE, path |-> 0, header |-> <<>>,
     header_text |-> <<>>, sections |-> <<>>,
     public |-> FALSE, authors |-> <<>>, description |-> <<>>,
     arguments |-> <<>>, return_value |-> <<>>, example |-> <<>>,
     logged |-> FALSE]

\* a header check that lets an empty Public value through
public_undefined_never(public_raw) == FALSE

\* if not public_raw
public_undefined(public_raw) == public_raw = <<>>

\* if author_raw: authors and description
with_author(r, author_raw) ==
    IF author_raw # <<>>
    THEN [r EXCEPT !.authors = process_author(author_raw),
                   !.description = process_description(author_raw)]
    ELSE r

\* what a parser that was not called leaves: nothing
NotCalled == [value |-> <<>>, fb |-> <<>>, raised |-> ""]

\* if arguments_raw: a is the result of process_arguments
with_arguments(r, arguments_raw, a) ==
    IF arguments_raw # <<>>
    THEN [r EXCEPT !.arguments = a.value, !.fb = @ \o a.fb]
    ELSE r

\* if return_value_raw: v is the result of process_return_value
with_return_value(r, return_value_raw, v) ==
    IF return_value_raw = <<>> THEN r
    ELSE IF v.raised # "" THEN [r EXCEPT !.fb = @ \o v.fb, !.raised = v.raised]
    ELSE [r EXCEPT !.return_value = v.value, !.fb = @ \o v.fb]

\* if example_raw: not reached when process_return_value raised
with_example(r, example_raw) ==
    IF r.raised = "" /\ example_raw # <<>>
    THEN [r EXCEPT !.example = strip(example_raw)]
    ELSE r

\* process_header after the four get_section calls returned
process_raw_sections(r, author_raw, arguments_raw, return_value_raw, example_raw) ==
    with_example(
        with_return_value(
            with_arguments(
                with_author(r, author_raw),
                arguments_raw,
                IF arguments_raw # <<>> THEN process_arguments(arguments_raw)
                ELSE NotCalled),
            return_value_raw,
            IF return_value_raw # <<>> THEN process_return_value(return_value_raw)
            ELSE NotCalled),
        example_raw)

\* the four get_section calls, in order, up to the first that raises
retrieve_sections(r, author_raw, arguments_raw, return_value_raw, example_raw) ==
    IF author_raw.raised # ""
    THEN [r EXCEPT !.raised = author_raw.raised]
    ELSE IF arguments_raw.raised # ""
    THEN [r EXCEPT !.fb = @ \o author_raw.fb, !.raised = arguments_raw.raised]
    ELSE IF return_value_raw.raised # ""
    THEN [r EXCEPT !.fb = @ \o author_raw.fb \o arguments_raw.fb,
                   !.raised = return_value_raw.raised]
    ELSE IF example_raw.raised # ""
    THEN [r EXCEPT !.fb = @ \o author_raw.fb \o arguments_raw.fb \o return_value_raw.fb,
                   !.raised = example_raw.raised]
    ELSE process_raw_sections(
             [r EXCEPT !.fb = @ \o author_raw.fb \o arguments_raw.fb
                                \o return_value_raw.fb \o example_raw.fb],
             author_raw.text, arguments_raw.text, return_value_raw.text,
             example_raw.text)

\* process_header from "Retrieve the raw sections text" on; r is the result so far
process_sections(r) ==
    retrieve_sections(r,
                      get_section(r.sections, "Author"),
                      get_section(r.sections, "Argument"),
                      get_section(r.sections, "Return Value"),
                      get_section(r.sections, "Example"))

\* process_header after process_public returned p
process_public_result(r, p, debug) ==
    IF ~p.value /\ ~debug
    THEN [r EXCEPT !.public = p.value, !.fb = @ \o p.fb]
    ELSE process_sections([r EXCEPT !.public = p.value, !.fb = @ \o p.fb])

\* process_header after get_section("Public") returned public_raw
process_public_raw(r, public_raw, debug) ==
    IF public_raw.raised # ""
    THEN [r EXCEPT !.raised = public_raw.raised]
    ELSE IF public_undefined(public_raw.text)
    THEN [r EXCEPT !.fb = public_raw.fb
                          \o <<Msg("Public value undefined", <<>>, Aborted)>>]
    ELSE process_public_result([r EXCEPT !.fb = public_raw.fb],
                               process_public(public_raw.text), debug)

\* process_header once self.sections is set
process_split(header_text, sections, debug) ==
    process_public_raw([header_text |-> header_text, sections |-> sections,
                        public |-> FALSE, authors |-> <<>>, description |-> <<>>,
                        arguments |-> <<>>, return_value |-> <<>>, example |-> <<>>,
                        fb |-> <<>>, raised |-> ""],
                       get_section(sections, "Public"), debug)

process_header_text(header_text, debug) ==
    process_split(header_text, sections_of(header_text), debug)

\* FunctionFile.process_header: the fields it leaves, its feedback calls in
\* order (fb) and the exception it raises (raised)
process_header(header, debug) == process_header_text(header_text_of(header), debug)

\* the blocks document_function writes, in order
FragmentBlocks ==
    <<"Title", "Description", "Parameters", "Return Value", "Example",
      "Authors", "Rule">>

\* document_function: the blocks that reach the output file, and the exception
\* ("...{} | {}...".format(*function.return_value) needs two values)
document_function(f) ==
    IF Len(f.return_value) < 2
    THEN [fragment |-> [path |-> f.path, blocks |-> SubSeq(FragmentBlocks, 1, 3)],
          raised |-> "IndexError"]
    ELSE [fragment |-> [path |-> f.path, blocks |-> FragmentBlocks], raised |-> ""]

----------------------------------------------------------------------------
(* Files *)

Blank == <<>>

AuthorBlocks ==
    { <<>>,
      << <<"Author", ":", SP, "bux578">>, <<"Does", SP, "a", SP, "thing.">>, Blank >>,
      << <<"Author", "s", ":", SP, "bux578", ",", SP, "commy2">>, Blank >> }

ArgumentBlocks ==
    { <<>>,
      << <<"Argument", "s", ":">>,
         <<"0", ":", SP, "Unit", SP, "<", "OBJECT", ">">>, Blank >>,
      << <<"Argument", "s", ":">>,
         <<"0", ":", SP, "Unit", "<", "OBJECT", ">">>,
         <<"2", ":", SP, "Target", "<", "OBJECT", ">", SP,
           "(", "default", ":", SP, "objNull", ")">> >>,
      << <<"Argument", "s", ":">>, <<"None">>, Blank >>,
      << <<"Argument", "s", ":">> >>,
      << <<"Argument", "s", ":">>, Blank >> }

ReturnBlocks ==
    { <<>>,
      << <<"Return Value", ":">>, <<"Success", SP, "<", "BOOLEAN", ">">>, Blank >>,
      << <<"Return Value", ":">>, <<"None">>, Blank >>,
      << <<"Return Value", ":">>, <<"Nothing">>, Blank >> }

ExampleBlocks ==
    { <<>>,
      << <<"Example", ":">>,
         <<"[player]", SP, "call", SP, "ace_test_fnc_thing;">>, Blank >> }

PublicBlocks ==
    { <<>>,
      << <<"Public", ":", SP, "Yes">> >>,
      << <<"Public", ":", SP, "Yes">>, Blank >>,
      << <<"Public", ":", SP, "yes">> >>,
      << <<"Public", ":", SP, "No">> >>,
      << <<"Public", ":", SP, "No">>, Blank >>,
      << <<"Public", ":", SP, "Maybe">> >>,
      << <<"Public", ":">> >>,
      << <<"Public", ":">>, Blank >> }

\* a file whose code starts with a comment header
HeaderFiles ==
    [comment : {TRUE}, author : AuthorBlocks, arguments : ArgumentBlocks,
     return_value : ReturnBlocks, example : ExampleBlocks,
     public : PublicBlocks, public_first : BOOLEAN]

\* a file whose code does not start with a block comment
NoHeaderFile ==
    [comment |-> FALSE, author |-> <<>>, arguments |-> <<>>, return_value |-> <<>>,
     example |-> <<>>, public |-> <<>>, public_first |-> FALSE]

FileSet == HeaderFiles \cup {NoHeaderFile}

\* the content lines of a file's header as authored, in order
LinesOf(file) ==
    IF file.public_first
    THEN file.public \o file.author \o file.arguments \o file.return_value
         \o file.example
    ELSE file.author \o file.arguments \o file.return_value \o file.example
         \o file.public

\* a content line behind the " * " decoration (" *" for a blank line)
Decorate(line) == IF line = <<>> THEN <<SP, "*">> ELSE <<SP, "*", SP>> \o line

\* the text of a file: the comment header and the code after it
CodeOf(file) ==
    LET lines == LinesOf(file) IN
    IF file.comment
    THEN <<"/", "*", NL>>
         \o join([i \in 1..Len(lines) |-> Decorate(lines[i]) \o <<NL>>], <<>>)
         \o <<SP, "*", "/", NL, "params", NL>>
    ELSE <<"params", NL>>

----------------------------------------------------------------------------
(* crawl_dir *)

NoException == [exc |-> "", in |-> ""]

Init ==
    /\ files \in 0..MaxFiles
    /\ idx = 0
    /\ debugArg \in BOOLEAN
    /\ pc = "walk"
    /\ src = NoHeaderFile
    /\ function = NewFunction
    /\ out = <<>>
    /\ wiki = <<>>
    /\ raised = NoException
    /\ ret = <<>>

\* the FunctionFile after import_header found the header (<<>>: none) and
\* printed lg
Imported(path, header, lg) ==
    /\ function' = [NewFunction EXCEPT !.path = path, !.header = header,
                                       !.logged = lg.logged]
    /\ out' = lg.out

\* import_header from the match on
import_match(path, header) ==
    Imported(path, header,
             IF header # <<>> THEN [logged |-> FALSE, out |-> <<>>]
             ELSE feedback([logged |-> FALSE, out |-> <<>>], NewFunction.debug,
                           Msg("Missing header", <<>>, Aborted)))

\* function = FunctionFile(directory); function.import_header(file_path)
ImportHeader ==
    /\ pc = "walk"
    /\ idx < files
    /\ \E file \in FileSet :
         /\ src' = file
         /\ import_match(idx + 1, header_match(CodeOf(file)))
    /\ idx' = idx + 1
    /\ pc' = "has_header"
    /\ UNCHANGED <<files, debugArg, wiki, raised, ret>>

\* if function.has_header(): is false
NoHeader ==
    /\ pc = "has_header"
    /\ function.header = <<>>
    /\ pc' = "end"
    /\ UNCHANGED <<files, idx, debugArg, src, function, out, wiki, raised, ret>>

\* the FunctionFile and the crawl after process_header ended with r and lg
HeaderProcessed(r, lg) ==
    /\ function' = [function EXCEPT
                       !.debug = debugArg,
                       !.header_text = r.header_text,
                       !.sections = r.sections,
                       !.public = r.public,
                       !.authors = r.authors,
                       !.description = r.description,
                       !.arguments = r.arguments,
                       !.return_value = r.return_value,
                       !.example = r.example,
                       !.logged = lg.logged]
    /\ out' = lg.out
    /\ IF r.raised # ""
       THEN /\ pc' = "crashed"
            /\ raised' = [exc |-> r.raised, in |-> "process_header"]
       ELSE /\ pc' = "is_public"
            /\ raised' = raised

\* process_header with its feedback calls printed
header_result(r) ==
    HeaderProcessed(r, feedback_all([logged |-> function.logged, out |-> out],
                                    debugArg, r.fb))

\* function.process_header(debug)
ProcessHeader ==
    /\ pc = "has_header"
    /\ function.header # <<>>
    /\ header_result(process_header(function.header, debugArg))
    /\ UNCHANGED <<files, idx, debugArg, src, wiki, ret>>

\* if function.is_public() and not debug: is false
NotDocumented ==
    /\ pc = "is_public"
    /\ ~(function.public /\ ~debugArg)
    /\ pc' = "end"
    /\ UNCHANGED <<files, idx, debugArg, src, function, out, wiki, raised, ret>>

\* function.feedback("Publicly documented") printed lg
PubliclyDocumented(lg) ==
    /\ function' = [function EXCEPT !.logged = lg.logged]
    /\ out' = lg.out

\* the crawl after document_function ended with d
Documented(d) ==
    /\ wiki' = Append(wiki, d.fragment)
    /\ IF d.raised # ""
       THEN /\ pc' = "crashed"
            /\ raised' = [exc |-> d.raised, in |-> "document_function"]
            /\ UNCHANGED <<function, out>>
       ELSE /\ pc' = "end"
            /\ raised' = raised
            /\ PubliclyDocumented(
                   feedback([logged |-> function.logged, out |-> out],
                            function.debug, Msg("Publicly documented", <<>>, Info)))

\* document_function(function); function.feedback("Publicly documented")
DocumentFunction ==
    /\ pc = "is_public"
    /\ function.public /\ ~debugArg
    /\ Documented(document_function(function))
    /\ UNCHANGED <<files, idx, debugArg, src, ret>>

\* end of the loop body: the iteration's FunctionFile is not used again; the
\* for statement goes on to the next eligible file, if any
NextFile ==
    /\ pc = "end"
    /\ pc' = "walk"
    /\ src' = NoHeaderFile
    /\ function' = NewFunction
    /\ out' = <<>>
    /\ UNCHANGED <<files, idx, debugArg, wiki, raised, ret>>

\* os.walk has no more files
Finish ==
    /\ pc = "walk"
    /\ idx = files
    /\ pc' = "done"
    /\ UNCHANGED <<files, idx, debugArg, src, function, out, wiki, raised, ret>>

Next ==
    \/ ImportHeader
    \/ NoHeader
    \/ ProcessHeader
    \/ NotDocumented
    \/ DocumentFunction
    \/ NextFile
    \/ Finish

Spec == Init /\ [][Next]_vars

----------------------------------------------------------------------------
(* Properties of the crawl (specification Spec) *)

\* process_header has been called on the current file's header
Processed == pc \in {"is_public", "end", "crashed"} /\ function.header # <<>>

\* the diagnostics printed for the current file, without the Processing line
Diagnostics == SelectSeq(out, LAMBDA l : l.kind # "Processing")

\* the diagnostics printed for the current file with the given message
WithMessage(message) == SelectSeq(out, LAMBDA l : l.message = message)

\* a fragment (whole or partial) was appended for the current file
FragmentWritten == \E i \in 1..Len(wiki) : wiki[i].path = function.path

\* the header declares "Public: Yes" in some letter case
DeclaresPublicYes ==
    /\ src.comment
    /\ src.public # <<>>
    /\ Len(src.public[1]) = 4
    /\ Lower(src.public[1][4]) = "yes"

\* the Arguments marker is followed directly by the next marker or the end of
\* the header, or only by blank lines
ArgumentsEmptyOrBlank ==
    /\ src.comment
    /\ src.arguments # <<>>
    /\ Len(src.arguments[1]) = 3
    /\ \A i \in 2..Len(src.arguments) : src.arguments[i] = Blank

\* the Public section is missing, or nothing follows its marker
PublicMissingOrEmpty ==
    /\ src.comment
    /\ src.public \in { <<>>, << <<"Public", ":">> >> }

\* C1: for every header and either debug setting process_header returns
\* normally: no exception propagates out of it
C1_ProcessHeaderReturnsNormally == raised.in # "process_header"

\* C2: a malformed file never stops the crawl: the crawl does not stop while
\* eligible files remain
C2_MalformedFileNeverStopsCrawl == ~(pc = "crashed" /\ idx < files)

\* C3: a header that declares "Public: Yes" (any letter case, any position of
\* the section) leaves public true, and is documented in non-debug mode
C3_PublicYesIsPublic ==
    (Processed /\ pc # "crashed" /\ DeclaresPublicYes)
        => /\ function.public
           /\ (pc = "end" /\ ~debugArg) => FragmentWritten

\* C4: a public header whose Arguments section is empty or blank-only gets an
\* empty argument list and exactly one "No arguments provided" Error
C4_EmptyArgumentsOneError ==
    (Processed /\ pc = "is_public" /\ function.public /\ ArgumentsEmptyOrBlank)
        => /\ function.arguments = <<>>
           /\ Len(WithMessage("No arguments provided (use \"None\" where appropriate)")) = 1
           /\ \A i \in 1..Len(out) :
                 out[i].message = "No arguments provided (use \"None\" where appropriate)"
                     => out[i].kind = "Error"

\* the header of the scenario: Author: bux578 / Does a thing. / Arguments:
\* 0: Unit <OBJECT> / Return Value: Success <BOOLEAN> / Example / Public: Yes
ScenarioFile ==
    [comment |-> TRUE,
     author |-> << <<"Author", ":", SP, "bux578">>,
                   <<"Does", SP, "a", SP, "thing.">>, Blank >>,
     arguments |-> << <<"Argument", "s", ":">>,
                      <<"0", ":", SP, "Unit", SP, "<", "OBJECT", ">">>, Blank >>,
     return_value |-> << <<"Return Value", ":">>,
                         <<"Success", SP, "<", "BOOLEAN", ">">>, Blank >>,
     example |-> << <<"Example", ":">>,
                    <<"[player]", SP, "call", SP, "ace_test_fnc_thing;">>, Blank >>,
     public |-> << <<"Public", ":", SP, "Yes">> >>,
     public_first |-> FALSE]

\* the lines of a block below its first line, each with its line terminator
LinesBelow(block) ==
    join([i \in 1..(Len(block) - 1) |-> block[i + 1] \o <<NL>>], <<>>)

\* a line written "N: Name <TYPES>" or "Name <TYPES>": the position of Name
NameAt(line) ==
    IF Len(line) = 8 /\ line[2] = ":" /\ line[5] = SP /\ line[6] = "<" THEN 4
    ELSE IF Len(line) = 5 /\ line[2] = SP /\ line[3] = "<" THEN 1
    ELSE 0

\* all sections of the current file were parsed and process_header returned
FullyParsed ==
    /\ Processed /\ pc = "is_public"
    /\ function.public
    /\ ~PublicMissingOrEmpty

\* C5 as stated: the scenario parses to authors=["bux578"],
\* description="Does a thing.\n", arguments=[("0","Unit","OBJECT","",[])],
\* return_value=("Success","BOOLEAN"), the example line, public=true
C5_ScenarioAsStated ==
    (FullyParsed /\ src = ScenarioFile)
        => /\ function.authors = << <<"bux578">> >>
           /\ function.description = <<"Does", SP, "a", SP, "thing.", NL>>
           /\ function.arguments
                = << << <<"0">>, <<"Unit">>, <<"OBJECT">>, <<>>, <<>> >> >>
           /\ function.return_value = << <<"Success">>, <<"BOOLEAN">> >>
           /\ function.example = <<"[player]", SP, "call", SP, "ace_test_fnc_thing;">>
           /\ function.public

\* C5 amended: the scenario parses to description="Does a thing.\n\n",
\* arguments=[("0","Unit ","OBJECT","",[])], return_value=("Success ","BOOLEAN")
\* and the other values as stated; in general the name recorded for
\* 'Name <TYPES>' is 'Name ' (the space before '<' is kept), and the
\* description is every line below the author line up to the next marker,
\* the blank separator line included
C5_ScenarioAsParsed ==
    FullyParsed
        => /\ src = ScenarioFile
                => /\ function.authors = << <<"bux578">> >>
                   /\ function.description = <<"Does", SP, "a", SP, "thing.", NL, NL>>
                   /\ function.arguments
                        = << << <<"0">>, <<"Unit", SP>>, <<"OBJECT">>, <<>>, <<>> >> >>
                   /\ function.return_value = << <<"Success", SP>>, <<"BOOLEAN">> >>
                   /\ function.example
                        = <<"[player]", SP, "call", SP, "ace_test_fnc_thing;">>
                   /\ function.public
           /\ src.author # <<>> => function.description = LinesBelow(src.author)
           /\ \A i \in 1..Len(src.arguments) :
                 NameAt(src.arguments[i]) > 0
                     => \E a \in 1..Len(function.arguments) :
                           function.arguments[a][2]
                               = <<src.arguments[i][NameAt(src.arguments[i])], SP>>
           /\ \A i \in 1..Len(src.return_value) :
                 NameAt(src.return_value[i]) > 0
                     => function.return_value[1]
                            = <<src.return_value[i][NameAt(src.return_value[i])], SP>>

\* the scenario header has been parsed
C5_Witness ==
    /\ FullyParsed
    /\ src = ScenarioFile
    /\ function.arguments # <<>>
    /\ function.description # <<>>

\* C7: when the Public section is missing or its body is empty, process_header
\* emits Aborted "Public value undefined" and stops: public and the other
\* fields keep their defaults and no other section gets a diagnostic
C7_PublicUndefinedStops ==
    (Processed /\ PublicMissingOrEmpty)
        => /\ pc # "crashed"
           /\ ~function.public
           /\ function.authors = NewFunction.authors
           /\ function.description = NewFunction.description
           /\ function.arguments = NewFunction.arguments
           /\ function.return_value = NewFunction.return_value
           /\ function.example = NewFunction.example
           /\ Len(WithMessage("Public value undefined")) = 1
           /\ out[Len(out)].message = "Public value undefined"
           /\ out[Len(out)].kind = "Aborted"
           /\ \A i \in 1..Len(Diagnostics) :
                 \/ Diagnostics[i].message = "Public value undefined"
                 \/ /\ Diagnostics[i].message = "Missing \"{}\" header section"
                    /\ Diagnostics[i].arg = <<"Public">>

\* a header with an empty Public body and other sections that would have been
\* parsed has been processed
C7_Witness ==
    /\ Processed
    /\ src.public = << <<"Public", ":">> >>
    /\ src.author # <<>>
    /\ src.return_value # <<>>
    /\ src.return_value[2] = <<"Nothing">>
    /\ Len(Diagnostics) = 1
    /\ Diagnostics[1].kind = "Aborted"

\* C8: a fragment is written for a file exactly when the file has a header,
\* its parsed public flag is true and debug mode is off; in debug mode nothing
\* is ever written; in non-debug mode a private function's other sections are
\* not parsed
C8_DocumentedIffPublic ==
    /\ pc \in {"end", "crashed"}
          => (FragmentWritten <=> (function.header # <<>> /\ function.public /\ ~debugArg))
    /\ debugArg => wiki = <<>>
    /\ (Processed /\ ~debugArg /\ ~function.public)
          => /\ function.authors = <<>>
             /\ function.arguments = <<>>
             /\ function.return_value = <<>>
             /\ function.example = <<>>

----------------------------------------------------------------------------
(* process_arguments on every body of up to MaxArgLines lines               *)
(* (specification SpecArgs)                                                *)

\* argument lines that match the pattern, in the form "N: Name<TYPES>"
ValidArgLines ==
    { <<"0", ":", SP, "Unit", "<", "OBJECT", ">">>,
      <<"1", ":", SP, "Target", "<", "OBJECT", ">">>,
      <<"2", ":", SP, "Target", "<", "OBJECT", ">">>,
      <<"0", "1", ":", SP, "Other", "<", "OBJECT", ">">> }

ArgLines ==
    ValidArgLines \cup { <<"note">>, <<"1", ":", "bad">>, <<"None">>, Blank }

\* the raw bodies: one to MaxArgLines lines, each with its line terminator
ArgBodies ==
    { join([i \in 1..Len(ls) |-> ls[i] \o <<NL>>], <<>>) :
        ls \in UNION {[1..n -> ArgLines] : n \in 1..MaxArgLines} }

InitArgs ==
    /\ files = 0
    /\ idx = 0
    /\ debugArg \in BOOLEAN
    /\ pc = "arguments"
    /\ src \in ArgBodies
    /\ function = [NewFunction EXCEPT !.debug = debugArg]
    /\ out = <<>>
    /\ wiki = <<>>
    /\ raised = NoException
    /\ ret = <<>>

\* process_arguments returned a and printed lg
ArgumentsProcessed(a, lg) ==
    /\ function' = [function EXCEPT !.arguments = a.value, !.logged = lg.logged]
    /\ out' = lg.out
    /\ ret' = a.value

arguments_result(a) ==
    ArgumentsProcessed(a, feedback_all([logged |-> function.logged, out |-> out],
                                       function.debug, a.fb))

\* self.arguments = self.process_arguments(arguments_raw)
ProcessArguments ==
    /\ pc = "arguments"
    /\ arguments_result(process_arguments(src))
    /\ pc' = "returned"
    /\ UNCHANGED <<files, idx, debugArg, src, wiki, raised>>

NextArgs == ProcessArguments

SpecArgs == InitArgs /\ [][NextArgs]_vars

\* the lines the loop of process_arguments sees
LoopLines ==
    LET lines == splitlines(src) IN
    IF lines[1] = <<"None">> \/ (\A i \in 1..Len(lines) : lines[i] = Blank)
    THEN <<>>
    ELSE lines

\* the written index of a valid argument line
WrittenIndex(line) == SubSeq(line, 1, find(line, ":", 1) - 1)

\* the written indexes of the argument lines that match, in order
WrittenIndexes ==
    LET valid == SelectSeq(LoopLines, LAMBDA l : l \in ValidArgLines) IN
    [i \in 1..Len(valid) |-> WrittenIndex(valid[i])]

\* the indexes named by the "does not match listed order" Warnings, in order
OrderWarnings ==
    LET w == SelectSeq(out, LAMBDA l :
                 l.message = "Argument index {} does not match listed order")
    IN [i \in 1..Len(w) |-> w[i].arg]

\* positions of the returned list whose index is not the 0-based position
Misplaced == {p \in 1..Len(ret) : ret[p][1] # <<ToString(p - 1)>>}

\* the indexes at the misplaced positions, in list order
RECURSIVE MisplacedIndexes(_)
MisplacedIndexes(p) ==
    IF p > Len(ret) THEN <<>>
    ELSE (IF p \in Misplaced THEN <<ret[p][1]>> ELSE <<>>) \o MisplacedIndexes(p + 1)

\* C6: a matching line gets the "does not match listed order" Warning exactly
\* when its written index differs from the number of arguments accepted
\* before it; it is appended with its as-written index either way; with no
\* such Warning every index equals its 0-based position
C6_IndexOrderWarning ==
    pc = "returned"
        => /\ [p \in 1..Len(ret) |-> ret[p][1]] = WrittenIndexes
           /\ OrderWarnings = MisplacedIndexes(1)
           /\ \A i \in 1..Len(out) :
                 out[i].message = "Argument index {} does not match listed order"
                     => out[i].kind = "Warning"
           /\ OrderWarnings = <<>> => Misplaced = {}

\* "0: Unit<OBJECT>" followed by "2: Target<OBJECT>": a Warning for index 2,
\* and the argument is kept with index "2"
C6_Witness ==
    /\ pc = "returned"
    /\ Len(ret) = 2
    /\ ret[1][1] = <<"0">>
    /\ ret[2][1] = <<"2">>
    /\ OrderWarnings = << <<"2">> >>

----------------------------------------------------------------------------
(* split and get_section on headers of up to MaxSections section blocks     *)
(* (specification SpecSplit)                                               *)

BodyKinds == {"empty", "inline", "below"}

SectionBlocks == [name : SectionNames, kind : BodyKinds]

\* the text authored in the k-th block (k tells duplicates apart)
BlockText(k) == <<"text", ToString(k)>>

\* the content lines of the k-th block
BlockLines(b, k) ==
    CASE b.kind = "empty" -> << <<b.name, ":">> >>
      [] b.kind = "inline" -> << <<b.name, ":", SP>> \o BlockText(k) >>
      [] b.kind = "below" -> << <<b.name, "s", ":">>, BlockText(k), Blank >>

\* the raw body authored for the k-th block: the text after its marker up to
\* the next marker or the end of the text
AuthoredBody(b, k) ==
    CASE b.kind = "empty" -> <<>>
      [] b.kind = "inline" -> BlockText(k) \o <<NL>>
      [] b.kind = "below" -> BlockText(k) \o <<NL, NL>>

\* the comment header made of the blocks, as extracted from the file
HeaderOfBlocks(blocks) ==
    LET lines == join([k \in 1..Len(blocks) |-> BlockLines(blocks[k], k)], <<>>) IN
    header_match(<<"/", "*", NL>>
                 \o join([i \in 1..Len(lines) |-> Decorate(lines[i]) \o <<NL>>], <<>>)
                 \o <<SP, "*", "/", NL, "params", NL>>)

InitSplit ==
    /\ files = 0
    /\ idx = 0
    /\ debugArg \in BOOLEAN
    /\ pc = "header"
    /\ src \in UNION {[1..n -> SectionBlocks] : n \in 0..MaxSections}
    /\ function = [NewFunction EXCEPT !.debug = debugArg,
                                      !.header = HeaderOfBlocks(src)]
    /\ out = <<>>
    /\ wiki = <<>>
    /\ raised = NoException
    /\ ret = <<>>

\* process_header up to "Split the header into expected sections"
SplitHeader ==
    /\ pc = "header"
    /\ function' = [function EXCEPT
                       !.header_text = header_text_of(function.header),
                       !.sections = sections_of(header_text_of(function.header))]
    /\ pc' = "sections"
    /\ UNCHANGED <<files, idx, debugArg, src, out, wiki, raised, ret>>

\* get_section(section_name) returned g and printed lg
SectionReturned(section_name, g, lg) ==
    /\ ret' = <<section_name, g.text>>
    /\ raised' = [exc |-> g.raised,
                  in |-> IF g.raised = "" THEN "" ELSE "get_section"]
    /\ function' = [function EXCEPT !.logged = lg.logged]
    /\ out' = lg.out

section_result(section_name, g) ==
    SectionReturned(section_name, g,
                    feedback_all([logged |-> function.logged, out |-> out],
                                 function.debug, g.fb))

\* self.get_section(section_name)
GetSection ==
    /\ pc = "sections"
    /\ \E section_name \in SectionNames :
         section_result(section_name, get_section(function.sections, section_name))
    /\ pc' = "returned"
    /\ UNCHANGED <<files, idx, debugArg, src, wiki>>

NextSplit == SplitHeader \/ GetSection

SpecSplit == InitSplit /\ [][NextSplit]_vars

\* the positions of the blocks that carry the looked-up name
BlocksNamed(section_name) == {k \in 1..Len(src) : src[k].name = section_name}

\* C9: get_section(name) returns exactly the raw body authored for the first
\* block with that name, whatever the order of the sections; when the name
\* never occurs it emits Error 'Missing "<name>" header section' and returns ""
C9_GetSectionRecoversBody ==
    pc = "returned"
        => /\ raised = NoException
           /\ IF BlocksNamed(ret[1]) = {}
              THEN /\ ret[2] = <<>>
                   /\ Diagnostics
                        = << [kind |-> "Error",
                              message |-> "Missing \"{}\" header section",
                              arg |-> <<ret[1]>>] >>
              ELSE /\ ret[2] = AuthoredBody(src[Min(BlocksNamed(ret[1]))],
                                            Min(BlocksNamed(ret[1])))
                   /\ out = <<>>

\* a name that occurs twice with different bodies has been looked up
C9_Witness ==
    /\ pc = "returned"
    /\ Cardinality(BlocksNamed(ret[1])) = 2
    /\ Min(BlocksNamed(ret[1])) > 1
    /\ ret[2] # <<>>
    /\ \E k \in BlocksNamed(ret[1]) : AuthoredBody(src[k], k) # ret[2]

----------------------------------------------------------------------------
(* any sequence of up to MaxCalls feedback calls on one file                *)
(* (specification SpecFeedback)                                            *)

InitFeedback ==
    /\ files = 0
    /\ idx = 0
    /\ debugArg \in BOOLEAN
    /\ pc = "feedback"
    /\ src = <<>>
    /\ function = [NewFunction EXCEPT !.debug = debugArg]
    /\ out = <<>>
    /\ wiki = <<>>
    /\ raised = NoException
    /\ ret = <<>>

\* feedback(message, level) printed lg
FeedbackPrinted(level, lg) ==
    /\ function' = [function EXCEPT !.logged = lg.logged]
    /\ out' = lg.out
    /\ ret' = Append(ret, level)

\* self.feedback(message, level); ret keeps the levels of the calls made
Feedback ==
    /\ pc = "feedback"
    /\ Len(ret) < MaxCalls
    /\ \E level \in {Info, Warning, Error, Aborted} :
         FeedbackPrinted(level,
                         feedback([logged |-> function.logged, out |-> out],
                                  function.debug, Msg("message", <<>>, level)))
    /\ UNCHANGED <<files, idx, debugArg, pc, src, wiki, raised>>

NextFeedback == Feedback

SpecFeedback == InitFeedback /\ [][NextFeedback]_vars

\* positions of the "Processing..." line in the output of the file
ProcessingAt == {i \in 1..Len(out) : out[i].kind = "Processing"}

\* positions of the Warning, Error and Aborted lines
ErrorsAt == {i \in 1..Len(out) : out[i].kind \in {"Warning", "Error", "Aborted"}}

\* positions of all diagnostic lines
DiagnosticsAt == {i \in 1..Len(out) : out[i].kind # "Processing"}

\* C10 as stated: the Processing line is printed at most once, before the
\* first diagnostic line of the file; in debug mode only if the file produced
\* a Warning, Error or Aborted; in non-debug mode before every diagnostic
C10_ProcessingLineAsStated ==
    /\ Cardinality(ProcessingAt) <= 1
    /\ \A p \in ProcessingAt : \A d \in DiagnosticsAt : p < d
    /\ function.debug => (ProcessingAt # {} => ErrorsAt # {})
    /\ ~function.debug => \A d \in DiagnosticsAt : \E p \in ProcessingAt : p < d

\* C10 amended: the Processing line is printed at most once; in non-debug
\* mode it comes before every diagnostic line of the file; in debug mode it
\* is printed exactly when the file produced a Warning, Error or Aborted and
\* comes directly before the first of them, so that only Info lines can
\* precede it
C10_ProcessingLine ==
    /\ Cardinality(ProcessingAt) <= 1
    /\ ~function.debug => \A d \in DiagnosticsAt : \E p \in ProcessingAt : p < d
    /\ ~function.debug => \A p \in ProcessingAt : p = 1
    /\ function.debug => (ProcessingAt # {} <=> ErrorsAt # {})
    /\ function.debug
          => \A p \in ProcessingAt :
                /\ p + 1 = Min(ErrorsAt)
                /\ \A i \in 1..(p - 1) : out[i].kind = "Info"

\* debug mode: an Info call, then a Warning call: the Processing line comes
\* second
C10_Witness ==
    /\ function.debug
    /\ Len(out) >= 3
    /\ out[1].kind = "Info"
    /\ out[2].kind = "Processing"
    /\ out[3].kind = "Warning"

====
